---- MODULE Spec2Model ----
(***************************************************************************)
(* Executable (taccanino/ts-evolve): an asynchronous operation bound to a  *)
(* registry of error constructors, a registry of dependencies and two      *)
(* middleware factories.  execute() runs before-middlewares, the operation *)
(* body and after-middlewares one await at a time and turns whatever is    *)
(* thrown into the Failure variant of Result.                              *)
(*                                                                         *)
(* JavaScript values are modelled as follows: strings are strings, the    *)
(* argument tuple (id, scope) is a sequence of two strings, the body's     *)
(* result {name, id} is a record, an Error object is a record              *)
(* [cls, name, message, params] (cls is the class the object was           *)
(* constructed by, which is what instanceof tests).                        *)
(***************************************************************************)
EXTENDS Integers, Sequences, FiniteSets, TLC

VARIABLES supplied, executables, callables, todo, inv

vars == <<supplied, executables, callables, todo, inv>>

(***************************************************************************)
(* Bounds of the model.                                                    *)
(***************************************************************************)
\* longest before-middleware list a factory returns
MaxBefore == 2
\* longest after-middleware list a factory returns
MaxAfter == 2

(***************************************************************************)
(* JavaScript values.                                                      *)
(***************************************************************************)
Undefined == "undefined"
Null == "null"

\* placeholders for fields that hold nothing yet
NoError == [cls |-> "", name |-> "", message |-> "", params |-> <<>>]
NoResult == [name |-> "", id |-> "", got |-> <<>>]
NoCall == [fn |-> "", name |-> "", params |-> <<>>]

\* a completion of a synchronous call: a returned value or a thrown error
Normal(v) == [threw |-> FALSE, value |-> v, error |-> NoError, call |-> NoCall]
Abrupt(e, c) == [threw |-> TRUE, error |-> e, call |-> c]

\* Result<R, E>
succeed(result) == [ok |-> TRUE, result |-> result]

fail(error) == [ok |-> FALSE, error |-> error]

\* class Defect extends Error: message, name = 'Defect'
Defect(message) ==
    [cls |-> "Defect", name |-> "Defect", message |-> message, params |-> <<message>>]

\* an error that is neither registered nor a Defect (a TypeError of the runtime)
TypeError(message) ==
    [cls |-> "TypeError", name |-> "TypeError", message |-> message, params |-> <<message>>]

(***************************************************************************)
(* Objects used as registries.  A registry written as an object literal    *)
(* inherits from Object.prototype: both the `in` operator and a property   *)
(* read walk the prototype chain.                                          *)
(***************************************************************************)
ObjectPrototype ==
    ("constructor" :> "Object") @@ ("toString" :> "Object.prototype.toString")

EmptyOwn == [n \in {} |-> ""]

UndefinedRegistry == [defined |-> FALSE, own |-> EmptyOwn]

ObjectLiteral(own) == [defined |-> TRUE, own |-> own]

\* key in obj
HasProperty(obj, key) ==
    key \in DOMAIN obj.own \/ key \in DOMAIN ObjectPrototype

\* obj[key]
GetProperty(obj, key) ==
    IF key \in DOMAIN obj.own THEN obj.own[key]
    ELSE IF key \in DOMAIN ObjectPrototype THEN ObjectPrototype[key]
    ELSE Undefined

(***************************************************************************)
(* The error classes of the examples and `new`.                            *)
(***************************************************************************)
ErrorClasses == {"UserNotFoundError", "PermissionDeniedError"}

\* the message each class passes to super(...)
ErrorMessage(cls, params) ==
    IF cls = "UserNotFoundError" THEN "User " \o params[1] \o " not found."
    ELSE "Permission denied for " \o params[1] \o "."

\* new errorConstructor(...errorParameters)
New(errorConstructor, errorParameters) ==
    IF errorConstructor \in ErrorClasses
    THEN Normal([cls |-> errorConstructor, name |-> "Error",
                 message |-> ErrorMessage(errorConstructor, errorParameters),
                 params |-> errorParameters])
    ELSE IF errorConstructor = "Object"
    THEN Normal([cls |-> "Object", name |-> Undefined, message |-> Undefined,
                 params |-> errorParameters])
    ELSE Abrupt(TypeError("errorConstructor is not a constructor"), NoCall)

(***************************************************************************)
(* Executable.raise and Executable.get.                                    *)
(***************************************************************************)
\* mutant: raise throws the instance without setting its name
raiseUnnamed(options, errorName, errorParameters) ==
    IF ~options.errors.defined \/ ~HasProperty(options.errors, errorName)
    THEN Defect("Error \"" \o errorName \o "\" is not registered.")
    ELSE LET errorInstance ==
                 New(GetProperty(options.errors, errorName), errorParameters)
         IN  IF errorInstance.threw THEN errorInstance.error
             ELSE errorInstance.value

\* raise never returns: the value of this operator is what it throws
raise(options, errorName, errorParameters) ==
    IF ~options.errors.defined \/ ~HasProperty(options.errors, errorName)
    THEN Defect("Error \"" \o errorName \o "\" is not registered.")
    ELSE LET errorConstructor == GetProperty(options.errors, errorName)
             errorInstance == New(errorConstructor, errorParameters)
         IN  IF errorInstance.threw THEN errorInstance.error
             ELSE [errorInstance.value EXCEPT !.name = errorName]

\* mutant: get hands out a copy of the stored value
getCopy(options, dependencyName) ==
    LET call == [fn |-> "get", name |-> dependencyName, params |-> <<>>]
        notRegistered ==
            Defect("Dependency \"" \o dependencyName \o "\" is not registered.")
    IN  IF ~options.dependencies.defined THEN Abrupt(notRegistered, call)
        ELSE LET dependencyInstance ==
                     GetProperty(options.dependencies, dependencyName)
             IN  IF dependencyInstance = Undefined
                 THEN Abrupt(notRegistered, call)
                 ELSE Normal("copy of " \o dependencyInstance)

get(options, dependencyName) ==
    LET call == [fn |-> "get", name |-> dependencyName, params |-> <<>>]
        notRegistered ==
            Defect("Dependency \"" \o dependencyName \o "\" is not registered.")
    IN  IF ~options.dependencies.defined THEN Abrupt(notRegistered, call)
        ELSE LET dependencyInstance ==
                     GetProperty(options.dependencies, dependencyName)
             IN  IF dependencyInstance = Undefined
                 THEN Abrupt(notRegistered, call)
                 ELSE Normal(dependencyInstance)

(***************************************************************************)
(* User code given to the Executable: operation bodies and middlewares.    *)
(* A body is a straight-line program over the context: each instruction    *)
(* either completes and falls through to the next one or throws; after the *)
(* last instruction the body returns {name: 'Alice', id}.                  *)
(***************************************************************************)
Ins(op, name) == [op |-> op, name |-> name]

\* the fetchUser example
FetchUser ==
    << Ins("get", "ILogger"), Ins("get", "ISerializable"),
       Ins("raiseIfBadId", "UserNotFoundError"),
       Ins("raiseIfNotAdmin", "PermissionDeniedError") >>

BodyPrograms ==
    { FetchUser,
      << Ins("raiseIfBadId", "TypoError") >>,
      << Ins("raiseIfBadId", "toString") >>,
      << Ins("raiseIfBadId", "constructor") >>,
      << Ins("get", "Logger") >>,
      << Ins("get", "ILogger"), Ins("get", "ILogger") >>,
      << Ins("get", "Cache") >>,
      << Ins("get", "toString") >>,
      << Ins("throw", "") >> }

RaiseCall(errorName, errorParameters) ==
    [fn |-> "raise", name |-> errorName, params |-> errorParameters]

\* context.raise(errorName, ...errorParameters) as a statement of user code
Raise(options, errorName, errorParameters) ==
    Abrupt(raise(options, errorName, errorParameters),
           RaiseCall(errorName, errorParameters))

\* what the statement at position k does: Normal(v) to fall through (v is
\* the value a get returned, Undefined otherwise), Abrupt to leave the body
Statement(ins, options, args) ==
    CASE ins.op = "get" -> get(options, ins.name)
      [] ins.op = "raiseIfBadId" ->
            IF args[1] = "bad-id" THEN Raise(options, ins.name, <<args[1]>>)
            ELSE Normal(Undefined)
      [] ins.op = "raiseIfNotAdmin" ->
            IF args[2] # "admin" THEN Raise(options, ins.name, <<"fetchUser">>)
            ELSE Normal(Undefined)
      [] OTHER -> Abrupt(TypeError("Cannot read properties of undefined"), NoCall)

RECURSIVE RunFrom(_, _, _, _, _)
RunFrom(prog, k, options, args, got) ==
    IF k > Len(prog)
    THEN Normal([name |-> "Alice", id |-> args[1], got |-> got])
    ELSE LET c == Statement(prog[k], options, args)
         IN  IF c.threw THEN c
             ELSE RunFrom(prog, k + 1, options, args,
                          IF prog[k].op = "get"
                          THEN Append(got, <<prog[k].name, c.value>>)
                          ELSE got)

\* the operation body applied to its arguments
RunBody(prog, options, args) == RunFrom(prog, 1, options, args, <<>>)

\* String.prototype.trim and toUpperCase on the strings of the model
Trim(s) == IF s = " 7 " THEN "7" ELSE s

ToUpperCase(s) ==
    CASE s = "Alice" -> "ALICE"
      [] s = "anonymous" -> "ANONYMOUS"
      [] OTHER -> s

BeforeKinds == {"trim", "swap", "guard"}

AfterKinds == {"upper", "anon", "crash"}

\* a before-middleware applied to the current argument tuple
BeforeMiddleware(kind, options, args) ==
    CASE kind = "trim" -> Normal(<<Trim(args[1]), Trim(args[2])>>)
      [] kind = "swap" -> Normal(<<args[2], args[1]>>)
      [] OTHER -> IF args[2] # "admin"
                  THEN Raise(options, "PermissionDeniedError", <<"guard">>)
                  ELSE Normal(args)

\* an after-middleware applied to the current result
AfterMiddleware(kind, options, result) ==
    CASE kind = "upper" -> Normal([result EXCEPT !.name = ToUpperCase(@)])
      [] kind = "anon" -> Normal([result EXCEPT !.name = "anonymous"])
      [] OTHER -> Abrupt(TypeError("result.name.toUpperCase is not a function"), NoCall)

(***************************************************************************)
(* What a client can pass to create / createFunctional.                    *)
(***************************************************************************)
SeqsUpTo(S, n) == UNION { [1..k -> S] : k \in 0..n }

\* a middleware factory: omitted from the options, or a function that
\* throws, or a function that returns the list
OmittedFactory == [defined |-> FALSE, throws |-> FALSE, list |-> <<>>]

ThrowingFactory == [defined |-> TRUE, throws |-> TRUE, list |-> <<>>]

Factory(list) == [defined |-> TRUE, throws |-> FALSE, list |-> list]

BeforeFactories ==
    {OmittedFactory, ThrowingFactory}
        \cup { Factory(l) : l \in SeqsUpTo(BeforeKinds, MaxBefore) }

AfterFactories ==
    {OmittedFactory, ThrowingFactory}
        \cup { Factory(l) : l \in SeqsUpTo(AfterKinds, MaxAfter) }

\* the function factory: context => body, or a factory that throws
FuncFactories ==
    { [throws |-> FALSE, prog |-> p] : p \in BodyPrograms }
        \cup { [throws |-> TRUE, prog |-> <<>>] }

\* errorRegistry of the examples
ErrorRegistry ==
    ObjectLiteral(("UserNotFoundError" :> "UserNotFoundError")
                  @@ ("PermissionDeniedError" :> "PermissionDeniedError"))

ErrorRegistries == {UndefinedRegistry, ObjectLiteral(EmptyOwn), ErrorRegistry}

\* dependencyRegistry of the examples, with one entry whose value is null
DependencyRegistry ==
    ObjectLiteral(("ILogger" :> "ConsoleLogger") @@ ("ISerializable" :> "Dog")
                  @@ ("Cache" :> Null))

DependencyRegistries == {UndefinedRegistry, DependencyRegistry}

\* the tuples (id, scope) execute is called with
Inputs == { <<"bad-id", "user">>, <<" 7 ", "admin">>, <<"7", "user">> }

(***************************************************************************)
(* Construction.                                                           *)
(***************************************************************************)
\* mutant: the constructor stores the options without the defaults
ExecutableNoDefaults(funcFactory, options) ==
    [funcFactory |-> funcFactory, options |-> options]

\* the private constructor: defaults for the two middleware factories
Executable(funcFactory, options) ==
    [funcFactory |-> funcFactory,
     options |->
        [errors |-> options.errors,
         dependencies |-> options.dependencies,
         beforeMiddlewares |->
            IF options.beforeMiddlewares.defined
            THEN options.beforeMiddlewares ELSE Factory(<<>>),
         afterMiddlewares |->
            IF options.afterMiddlewares.defined
            THEN options.afterMiddlewares ELSE Factory(<<>>)]]

\* what calling a callable passes as `this` to execute (0: undefined)
NoThis == 0

\* create returns the object e: the client calls e.execute(...)
create(e) == [style |-> "method", this |-> e]

\* mutant: createFunctional returns executable.execute without bind
createFunctionalUnbound(e) == [style |-> "function", this |-> NoThis]

\* createFunctional returns executable.execute.bind(executable)
createFunctional(e) == [style |-> "function", this |-> e]

(***************************************************************************)
(* One invocation of execute.  It runs synchronously up to an await; the   *)
(* awaited promise's settlement resumes it.                                *)
(***************************************************************************)
Invocations == {1, 2}

Pending == [state |-> "pending"]

Fulfilled(value) == [state |-> "fulfilled", value |-> value]

Rejected(reason) == [state |-> "rejected", reason |-> reason]

Step(step, index, kind) == [step |-> step, index |-> index, kind |-> kind]

\* an invocation not yet made.  via (the callable used), concurrent (another
\* invocation was in progress when this one was called), trace, settled
\* (how many awaited promises have settled), rawResult, bodyArgs and
\* failure record what happened; the rest are execute's locals and its
\* promise
Idle ==
    [pc |-> "idle", this |-> NoThis, args |-> <<>>, currentArgs |-> <<>>,
     list |-> <<>>, idx |-> 0, awaited |-> Normal(Undefined),
     result |-> NoResult, promise |-> Pending,
     via |-> 0, concurrent |-> FALSE, trace |-> <<>>, settled |-> 0,
     rawResult |-> NoResult, bodyArgs |-> <<>>,
     failure |-> [at |-> "", call |-> NoCall, error |-> NoError]]

\* a function value called as a factory
CallFactory(f) ==
    IF ~f.defined THEN Abrupt(TypeError("factory is not a function"), NoCall)
    ELSE IF f.throws THEN Abrupt(TypeError("thrown by the factory"), NoCall)
    ELSE Normal(f.list)

\* mutant: the boundary wraps what it caught into a Defect
CatchWrapped(st, at, c) ==
    [st EXCEPT !.pc = "done", !.awaited = Normal(Undefined),
               !.promise = Fulfilled(fail(IF c.error.cls = "Defect" THEN c.error
                                          ELSE Defect(c.error.message))),
               !.failure = [at |-> at, call |-> c.call, error |-> c.error]]

\* catch (error) { return fail(error) }
Catch(st, at, c) ==
    [st EXCEPT !.pc = "done", !.awaited = Normal(Undefined),
               !.promise = Fulfilled(fail(c.error)),
               !.failure = [at |-> at, call |-> c.call, error |-> c.error]]

\* return succeed(result)
Return(st) ==
    [st EXCEPT !.pc = "done", !.awaited = Normal(Undefined),
               !.promise = Fulfilled(succeed(st.result))]

\* mutant: the after-middlewares are taken from the end of the list
CallAfterBackwards(exe, st, list, k) ==
    IF k > Len(list) THEN Return(st)
    ELSE [st EXCEPT !.pc = "after", !.list = list, !.idx = k,
                    !.awaited = AfterMiddleware(list[Len(list) + 1 - k],
                                                exe.options, st.result),
                    !.trace = Append(@, Step("after", k, list[k]))]

\* the for-of over the after-middlewares, from element k
CallAfter(exe, st, list, k) ==
    IF k > Len(list) THEN Return(st)
    ELSE [st EXCEPT !.pc = "after", !.list = list, !.idx = k,
                    !.awaited = AfterMiddleware(list[k], exe.options, st.result),
                    !.trace = Append(@, Step("after", k, list[k]))]

\* this.options.afterMiddlewares(context), then the loop
EnterAfter(exe, st) ==
    LET f == CallFactory(exe.options.afterMiddlewares)
    IN  IF f.threw THEN Catch(st, "afterFactory", f)
        ELSE CallAfter(exe, st, f.value, 1)

\* this.funcFactory(context)(...currentArgs)
CallBody(exe, st) ==
    IF exe.funcFactory.throws
    THEN Catch(st, "funcFactory",
               Abrupt(TypeError("thrown by the factory"), NoCall))
    ELSE [st EXCEPT !.pc = "body", !.list = <<>>, !.idx = 0,
                    !.awaited = RunBody(exe.funcFactory.prog, exe.options,
                                        st.currentArgs),
                    !.bodyArgs = st.currentArgs,
                    !.trace = Append(@, Step("body", 0, "body"))]

\* mutant: the before-middlewares from element k are all started at once
\* and the last one is awaited
CallBeforeParallel(exe, st, list, k) ==
    IF k > Len(list) THEN CallBody(exe, st)
    ELSE [st EXCEPT !.pc = "before", !.list = list, !.idx = Len(list),
                    !.awaited = BeforeMiddleware(list[Len(list)], exe.options,
                                                 st.currentArgs),
                    !.trace = @ \o [j \in 1..(Len(list) + 1 - k) |->
                                      Step("before", k + j - 1, list[k + j - 1])]]

\* the for-of over the before-middlewares, from element k
CallBefore(exe, st, list, k) ==
    IF k > Len(list) THEN CallBody(exe, st)
    ELSE [st EXCEPT !.pc = "before", !.list = list, !.idx = k,
                    !.awaited = BeforeMiddleware(list[k], exe.options,
                                                 st.currentArgs),
                    !.trace = Append(@, Step("before", k, list[k]))]

\* mutant: the before-middleware factory is called outside the try
EnterBeforeOutsideTry(exe, st) ==
    LET f == CallFactory(exe.options.beforeMiddlewares)
    IN  IF f.threw THEN [st EXCEPT !.pc = "done", !.promise = Rejected(f.error)]
        ELSE CallBefore(exe, st, f.value, 1)

\* this.options.beforeMiddlewares(context), then the loop
EnterBefore(exe, st) ==
    LET f == CallFactory(exe.options.beforeMiddlewares)
    IN  IF f.threw THEN Catch(st, "beforeFactory", f)
        ELSE CallBefore(exe, st, f.value, 1)

\* execute(...args) up to its first await.  The context is built before
\* the try: with no `this`, this.raise throws and the promise rejects
Begin(exes, st, this, args) ==
    IF this = NoThis
    THEN [st EXCEPT !.pc = "done", !.args = args,
                    !.promise = Rejected(TypeError("Cannot read properties of undefined"))]
    ELSE EnterBefore(exes[this],
                     [st EXCEPT !.this = this, !.args = args,
                                !.currentArgs = args])

\* mutant: the loop drops what the middleware returned
ResumedBeforeKeepingArgs(exe, st) ==
    IF st.awaited.threw THEN Catch(st, "before", st.awaited)
    ELSE CallBefore(exe, st, st.list, st.idx + 1)

\* mutant: the loop skips the middleware after the one that settled
ResumedBeforeSkipping(exe, st) ==
    IF st.awaited.threw THEN Catch(st, "before", st.awaited)
    ELSE CallBefore(exe, [st EXCEPT !.currentArgs = st.awaited.value],
                    st.list, st.idx + 2)

\* the continuation of `currentArgs = await middleware(...currentArgs)`
ResumedBefore(exe, st) ==
    IF st.awaited.threw THEN Catch(st, "before", st.awaited)
    ELSE CallBefore(exe, [st EXCEPT !.currentArgs = st.awaited.value],
                    st.list, st.idx + 1)

\* mutant: a body that failed is parked until a retry that nothing triggers
ResumedBodyWaiting(exe, st) ==
    IF st.awaited.threw THEN [st EXCEPT !.pc = "retry"]
    ELSE EnterAfter(exe, [st EXCEPT !.result = st.awaited.value,
                                    !.rawResult = st.awaited.value])

\* mutant: a body that failed is called once more
ResumedBodyRetry(exe, st) ==
    IF st.awaited.threw
    THEN IF Len(SelectSeq(st.trace, LAMBDA s : s.step = "body")) = 1
         THEN CallBody(exe, st)
         ELSE Catch(st, "body", st.awaited)
    ELSE EnterAfter(exe, [st EXCEPT !.result = st.awaited.value,
                                    !.rawResult = st.awaited.value])

\* mutant: the after-middlewares are entered in a finally, also when the
\* body failed
ResumedBodyFinally(exe, st) ==
    IF st.awaited.threw
    THEN Catch(EnterAfter(exe, [st EXCEPT !.result = st.rawResult]),
               "body", st.awaited)
    ELSE EnterAfter(exe, [st EXCEPT !.result = st.awaited.value,
                                    !.rawResult = st.awaited.value])

\* the continuation of `let result = await this.funcFactory(context)(...)`
ResumedBody(exe, st) ==
    IF st.awaited.threw THEN Catch(st, "body", st.awaited)
    ELSE EnterAfter(exe, [st EXCEPT !.result = st.awaited.value,
                                    !.rawResult = st.awaited.value])

\* mutant: a throwing after-middleware is skipped
ResumedAfterSwallowing(exe, st) ==
    CallAfter(exe,
              IF st.awaited.threw THEN st
              ELSE [st EXCEPT !.result = st.awaited.value],
              st.list, st.idx + 1)

\* the continuation of `result = await middleware(result)`
ResumedAfter(exe, st) ==
    IF st.awaited.threw THEN Catch(st, "after", st.awaited)
    ELSE CallAfter(exe, [st EXCEPT !.result = st.awaited.value],
                   st.list, st.idx + 1)

(***************************************************************************)
(* Actions.                                                                *)
(***************************************************************************)
\* an invocation of execute still under way
InProgress(st) == st.pc \notin {"idle", "done"}

\* the promise execute awaits has settled
Settle(st) == [st EXCEPT !.settled = @ + 1]

\* the client makes call <<i, c>>: invocation i, through callable c
Execute(i, c, args) ==
    /\ <<i, c>> \in todo
    /\ inv[i].pc = "idle"
    /\ todo' = todo \ {<<i, c>>}
    /\ inv' = [inv EXCEPT ![i] =
            Begin(executables,
                  [@ EXCEPT !.via = c,
                            !.concurrent =
                                \E j \in DOMAIN inv : InProgress(inv[j])],
                  callables[c].this, args)]
    /\ UNCHANGED <<supplied, executables, callables>>

\* mutant: the loop takes the middlewares off a list kept on the Executable
ResumeBeforeShifting(i) ==
    /\ inv[i].pc = "before"
    /\ inv' = [inv EXCEPT ![i] = ResumedBefore(executables[@.this], Settle(@))]
    /\ executables' =
            [executables EXCEPT ![inv[i].this].options.beforeMiddlewares.list =
                                    IF @ = <<>> THEN @ ELSE Tail(@)]
    /\ UNCHANGED <<supplied, callables, todo>>

\* the promise of a before-middleware settles
ResumeBefore(i) ==
    /\ inv[i].pc = "before"
    /\ inv' = [inv EXCEPT ![i] = ResumedBefore(executables[@.this], Settle(@))]
    /\ UNCHANGED <<supplied, executables, callables, todo>>

\* mutant: the settled result is kept in a field of the Executable, which
\* the invocations of one instance share
ResumeBodyShared(i) ==
    /\ inv[i].pc = "body"
    /\ \E j \in DOMAIN inv :
          /\ inv[j].pc = "body"
          /\ inv[j].this = inv[i].this
          /\ inv' = [inv EXCEPT ![i] =
                ResumedBody(executables[@.this],
                            [Settle(@) EXCEPT !.awaited = inv[j].awaited])]
    /\ UNCHANGED <<supplied, executables, callables, todo>>

\* the promise of the operation body settles
ResumeBody(i) ==
    /\ inv[i].pc = "body"
    /\ inv' = [inv EXCEPT ![i] = ResumedBody(executables[@.this], Settle(@))]
    /\ UNCHANGED <<supplied, executables, callables, todo>>

\* mutant: when an after-middleware settles the Executable lets go of its
\* dependencies
ResumeAfterReleasing(i) ==
    /\ inv[i].pc = "after"
    /\ inv' = [inv EXCEPT ![i] = ResumedAfter(executables[@.this], Settle(@))]
    /\ executables' =
            [executables EXCEPT ![inv[i].this].options.dependencies =
                                    UndefinedRegistry]
    /\ UNCHANGED <<supplied, callables, todo>>

\* the promise of an after-middleware settles
ResumeAfter(i) ==
    /\ inv[i].pc = "after"
    /\ inv' = [inv EXCEPT ![i] = ResumedAfter(executables[@.this], Settle(@))]
    /\ UNCHANGED <<supplied, executables, callables, todo>>

(***************************************************************************)
(* Specifications.  Both callables are built from the same function        *)
(* factory and options: callable 1 by create, callable 2 by                *)
(* createFunctional.                                                       *)
(***************************************************************************)
UserOptions ==
    [errors : ErrorRegistries, dependencies : DependencyRegistries,
     beforeMiddlewares : BeforeFactories, afterMiddlewares : AfterFactories]

Constructed(funcFactory, options, calls) ==
    /\ supplied = [funcFactory |-> funcFactory, options |-> options]
    /\ executables = [e \in {1, 2} |-> Executable(funcFactory, options)]
    /\ callables = <<create(1), createFunctional(2)>>
    /\ todo = calls
    /\ inv = [i \in Invocations |-> Idle]

\* one invocation, of the handle returned by create
Init ==
    \E funcFactory \in FuncFactories, options \in UserOptions :
        Constructed(funcFactory, options, {<<1, 1>>})

Next ==
    \/ \E i \in Invocations, c \in {1, 2}, args \in Inputs : Execute(i, c, args)
    \/ \E i \in Invocations : ResumeBefore(i)
    \/ \E i \in Invocations : ResumeBody(i)
    \/ \E i \in Invocations : ResumeAfter(i)

Spec == Init /\ [][Next]_vars

\* two invocations with a few fixed pipelines: of the handle and of the
\* function (plan 1), or both of the handle (plan 2)
PairBeforeFactories ==
    {Factory(<<>>), Factory(<<"trim", "guard">>), ThrowingFactory}

PairAfterFactories ==
    {OmittedFactory, Factory(<<"upper">>), Factory(<<"anon", "crash">>)}

PairPlans == { {<<1, 1>>, <<2, 2>>}, {<<1, 1>>, <<2, 1>>} }

InitPair ==
    \E funcFactory \in FuncFactories, plan \in PairPlans,
       options \in [errors : ErrorRegistries,
                    dependencies : DependencyRegistries,
                    beforeMiddlewares : PairBeforeFactories,
                    afterMiddlewares : PairAfterFactories] :
        Constructed(funcFactory, options, plan)

SpecPair == InitPair /\ [][Next]_vars

\* the promise of every step that was started settles, and the continuation
\* of the await that waits for it then runs
Settlement ==
    \A i \in Invocations :
        /\ WF_vars(ResumeBefore(i))
        /\ WF_vars(ResumeBody(i))
        /\ WF_vars(ResumeAfter(i))

\* the two invocations of SpecPair when every awaited promise settles
SpecPairFair == InitPair /\ [][Next]_vars /\ Settlement

(***************************************************************************)
(* Properties.                                                             *)
(***************************************************************************)
Done(i) == inv[i].pc = "done"

Exe(i) == executables[inv[i].this]

\* a Result is exactly one of the two variants
IsResult(v) ==
    \/ DOMAIN v = {"ok", "result"} /\ v.ok = TRUE
    \/ DOMAIN v = {"ok", "error"} /\ v.ok = FALSE

Succeeded(i) ==
    Done(i) /\ inv[i].promise.state = "fulfilled" /\ inv[i].promise.value.ok

Failed(i) ==
    Done(i) /\ inv[i].promise.state = "fulfilled" /\ ~inv[i].promise.value.ok

\* the lists the factories given at construction return
DeclaredBefore == supplied.options.beforeMiddlewares.list

DeclaredAfter == supplied.options.afterMiddlewares.list

\* the steps of a trace of one stage, as the list of middlewares called
RECURSIVE KindsOf(_, _)
KindsOf(trace, stage) ==
    IF trace = <<>> THEN <<>>
    ELSE IF Head(trace).step = stage
         THEN <<Head(trace).kind>> \o KindsOf(Tail(trace), stage)
         ELSE KindsOf(Tail(trace), stage)

\* every step of a run in which nothing fails
FullPlan ==
    [k \in 1..Len(DeclaredBefore) |-> Step("before", k, DeclaredBefore[k])]
        \o << Step("body", 0, "body") >>
        \o [k \in 1..Len(DeclaredAfter) |-> Step("after", k, DeclaredAfter[k])]

IsPrefix(s, t) == Len(s) <= Len(t) /\ SubSeq(t, 1, Len(s)) = s

\* the after-middlewares of a list applied one after another to r
RECURSIVE ApplyAfter(_, _, _)
ApplyAfter(list, options, r) ==
    IF list = <<>> THEN r
    ELSE ApplyAfter(Tail(list), options,
                    AfterMiddleware(Head(list), options, r).value)

\* the value thrown by the step at which invocation i failed, computed
\* again from the step and its input
ThrownBy(i) ==
    LET st == inv[i]
        at == st.failure.at
    IN  CASE at = "before" ->
                BeforeMiddleware(st.list[st.idx], Exe(i).options,
                                 st.currentArgs).error
          [] at = "body" ->
                RunBody(Exe(i).funcFactory.prog, Exe(i).options, st.bodyArgs).error
          [] at = "after" ->
                AfterMiddleware(st.list[st.idx], Exe(i).options, st.result).error
          [] OTHER -> TypeError("thrown by the factory")

\* C1: every invocation's promise is never rejected, and once execute is
\* over it is fulfilled with exactly one Result, also when a factory, a
\* middleware or the body threw
C1_ExecuteAlwaysResolves ==
    \A i \in Invocations :
        /\ inv[i].promise.state # "rejected"
        /\ Done(i) <=> inv[i].promise.state = "fulfilled"
        /\ Done(i) => IsResult(inv[i].promise.value)
        /\ inv[i].failure.at # "" => Failed(i)

C1_Witness ==
    \E i \in Invocations :
        Failed(i) /\ inv[i].failure.at = "afterFactory"

\* C2: when the first failure is a call raise(name, ...params) with name a
\* key of the error registry, the outcome is a Failure whose payload was
\* constructed by the class registered under name from exactly params, and
\* whose name is name
C2_RaiseRegistered ==
    \A i \in Invocations :
        LET call == inv[i].failure.call
            errors == Exe(i).options.errors
        IN  (/\ Done(i)
             /\ call.fn = "raise"
             /\ errors.defined
             /\ call.name \in DOMAIN errors.own)
            => /\ Failed(i)
               /\ inv[i].promise.value.error =
                    [cls |-> errors.own[call.name], name |-> call.name,
                     message |-> ErrorMessage(errors.own[call.name], call.params),
                     params |-> call.params]

C2_Witness ==
    \E i \in Invocations :
        /\ Failed(i)
        /\ inv[i].failure.call = RaiseCall("UserNotFoundError", <<"bad-id">>)
        /\ inv[i].promise.value.error.cls = "UserNotFoundError"

\* C3: when the first failure is a call raise(name, ...) with name not a
\* key of the error registry (or with no registry), the outcome is a
\* Failure whose payload is the Defect 'Error "<name>" is not registered.'
C3_RaiseUnregistered ==
    \A i \in Invocations :
        LET call == inv[i].failure.call
            errors == Exe(i).options.errors
        IN  (/\ Done(i)
             /\ call.fn = "raise"
             /\ (~errors.defined \/ call.name \notin DOMAIN errors.own))
            => inv[i].promise =
                 Fulfilled(fail(Defect("Error \"" \o call.name
                                       \o "\" is not registered.")))

\* the <<name, value>> pairs get has returned to the body of invocation i
Got(i) ==
    IF inv[i].pc = "body" /\ ~inv[i].awaited.threw
    THEN inv[i].awaited.value.got
    ELSE inv[i].rawResult.got

\* C4: a failing get yields the Defect 'Dependency "<name>" is not
\* registered.', and get returns to the body only values stored under a key
\* of the dependency registry, never null or undefined
C4_GetUnregistered ==
    \A i \in Invocations :
        /\ (Done(i) /\ inv[i].failure.call.fn = "get")
            => inv[i].promise =
                 Fulfilled(fail(Defect("Dependency \"" \o inv[i].failure.call.name
                                       \o "\" is not registered.")))
        /\ \A k \in 1..Len(Got(i)) :
              /\ Got(i)[k][1] \in DOMAIN Exe(i).options.dependencies.own
              /\ Got(i)[k][2] \notin {Null, Undefined}

\* C5: when no step throws, the outcome is Success and its payload is the
\* declared after-middlewares applied in list order to the body's raw
\* result (the raw result itself when the list is empty)
C5_SuccessPayload ==
    \A i \in Invocations :
        (Done(i) /\ inv[i].promise.state = "fulfilled" /\ inv[i].failure.at = "")
        => /\ Succeeded(i)
           /\ inv[i].rawResult =
                RunBody(Exe(i).funcFactory.prog, Exe(i).options,
                        inv[i].bodyArgs).value
           /\ inv[i].promise.value.result =
                ApplyAfter(DeclaredAfter, Exe(i).options, inv[i].rawResult)
           /\ DeclaredAfter = <<>>
                => inv[i].promise.value.result = inv[i].rawResult

C5_Witness ==
    \E i \in Invocations :
        /\ Succeeded(i)
        /\ DeclaredAfter = <<"anon", "upper">>
        /\ inv[i].rawResult.name = "Alice"
        /\ inv[i].promise.value.result.name = "ANONYMOUS"

\* C6: once a step has failed the invocation is resolved with a Failure and
\* the steps started are those up to the failing step: none is started
\* after it, in this state or in any later one
C6_NoStepAfterFailure ==
    \A i \in Invocations :
        LET st == inv[i]
            at == st.failure.at
            n == Len(st.trace)
        IN  at # "" =>
            /\ Failed(i)
            /\ IsPrefix(st.trace, FullPlan)
            /\ CASE at = "beforeFactory" -> n = 0
                 [] at = "before" ->
                      /\ n = st.idx
                      /\ st.trace[n].step = "before"
                      /\ BeforeMiddleware(st.trace[n].kind, Exe(i).options,
                                          st.currentArgs).threw
                 [] at = "funcFactory" -> n = Len(DeclaredBefore)
                 [] at = "body" ->
                      /\ n = Len(DeclaredBefore) + 1
                      /\ st.trace[n].step = "body"
                      /\ RunBody(Exe(i).funcFactory.prog, Exe(i).options,
                                 st.bodyArgs).threw
                 [] at = "afterFactory" ->
                      n = Len(DeclaredBefore) + 1 /\ st.trace[n].step = "body"
                 [] OTHER ->
                      /\ n = Len(DeclaredBefore) + 1 + st.idx
                      /\ st.trace[n].step = "after"
                      /\ AfterMiddleware(st.trace[n].kind, Exe(i).options,
                                         st.result).threw

C6_Witness ==
    \E i \in Invocations :
        /\ Failed(i)
        /\ inv[i].failure.at = "before"
        /\ Len(DeclaredBefore) = 2
        /\ Len(DeclaredAfter) = 2
        /\ Len(inv[i].trace) = 1

\* C7 as claimed: in every invocation each declared before-middleware and
\* each declared after-middleware is executed exactly once, in list order
C7_EachMiddlewareExactlyOnce ==
    \A i \in Invocations :
        Done(i) => /\ KindsOf(inv[i].trace, "before") = DeclaredBefore
                   /\ KindsOf(inv[i].trace, "after") = DeclaredAfter

\* C7 as amended: the steps executed are always an initial segment of
\* before-middlewares 1..n, body, after-middlewares 1..m, each once; an
\* invocation that resolves with Success has executed all of them
C7_OnceInOrderUpToFailure ==
    \A i \in Invocations :
        /\ inv[i].pc # "idle" => IsPrefix(inv[i].trace, FullPlan)
        /\ Succeeded(i) =>
              /\ inv[i].trace = FullPlan
              /\ KindsOf(inv[i].trace, "before") = DeclaredBefore
              /\ KindsOf(inv[i].trace, "after") = DeclaredAfter

C7_Witness ==
    \E i \in Invocations :
        /\ Succeeded(i)
        /\ Len(DeclaredBefore) = 2
        /\ Len(DeclaredAfter) = 2
        /\ Len(inv[i].trace) = 5

\* C8: a Failure payload is always an instance of a class of the error
\* registry or a Defect
C8_FailureIsDeclaredOrDefect ==
    \A i \in Invocations :
        Failed(i) =>
            LET error == inv[i].promise.value.error
                errors == Exe(i).options.errors
            IN  \/ error.cls = "Defect"
                \/ /\ errors.defined
                   /\ \E key \in DOMAIN errors.own : errors.own[key] = error.cls

\* C9: the Failure payload is the value the failing step threw, unchanged
C9_PayloadIsThrownValue ==
    \A i \in Invocations :
        Failed(i) => inv[i].promise.value.error = ThrownBy(i)

C9_Witness ==
    \E i \in Invocations :
        /\ Failed(i)
        /\ inv[i].failure.at = "body"
        /\ inv[i].promise.value.error.cls = "TypeError"

\* C10: for the same function factory, options and arguments, an invocation
\* of the handle made by create and an invocation of the function made by
\* createFunctional end with the same outcome
C10_CreateEqualsCreateFunctional ==
    \A i, j \in Invocations :
        (/\ Done(i) /\ Done(j)
         /\ callables[inv[i].via].style = "method"
         /\ callables[inv[j].via].style = "function"
         /\ inv[i].args = inv[j].args)
        => inv[i].promise = inv[j].promise

C10_Witness ==
    \E i, j \in Invocations :
        /\ Failed(i) /\ Failed(j)
        /\ callables[inv[i].via].style = "method"
        /\ callables[inv[j].via].style = "function"
        /\ inv[i].args = inv[j].args
        /\ inv[i].promise.value.error.cls = "Defect"
        /\ inv[i].promise = inv[j].promise

\* the first throw of a list of before-middlewares applied one after
\* another to args, or the tuple the last one returns
RECURSIVE BeforeChain(_, _, _)
BeforeChain(list, options, args) ==
    IF list = <<>> THEN Normal(args)
    ELSE LET c == BeforeMiddleware(Head(list), options, args)
         IN  IF c.threw THEN c ELSE BeforeChain(Tail(list), options, c.value)

\* the same for a list of after-middlewares and a result
RECURSIVE AfterChain(_, _, _)
AfterChain(list, options, r) ==
    IF list = <<>> THEN Normal(r)
    ELSE LET c == AfterMiddleware(Head(list), options, r)
         IN  IF c.threw THEN c ELSE AfterChain(Tail(list), options, c.value)

\* the completion of the whole pipeline of exe on args when it runs alone,
\* from the first factory to the last after-middleware
Alone(exe, args) ==
    LET bf == CallFactory(exe.options.beforeMiddlewares)
        b == BeforeChain(bf.value, exe.options, args)
        r == RunBody(exe.funcFactory.prog, exe.options, b.value)
        af == CallFactory(exe.options.afterMiddlewares)
        a == AfterChain(af.value, exe.options, r.value)
    IN  IF bf.threw THEN bf
        ELSE IF b.threw THEN b
        ELSE IF exe.funcFactory.throws
             THEN Abrupt(TypeError("thrown by the factory"), NoCall)
        ELSE IF r.threw THEN r
        ELSE IF af.threw THEN af
        ELSE a

\* the Result of an invocation of exe on args that runs alone
Sequential(exe, args) ==
    LET c == Alone(exe, args)
    IN  IF c.threw THEN fail(c.error) ELSE succeed(c.value)

\* C11: two invocations of one Executable with different inputs, their
\* steps interleaved in any way, each end with the outcome the same call
\* has when it runs alone (so with the outcome of either sequential order)
C11_ConcurrentEqualsSequential ==
    \A i, j \in Invocations :
        (/\ i # j
         /\ Done(i)
         /\ inv[j].pc # "idle"
         /\ inv[i].this = inv[j].this
         /\ inv[i].args # inv[j].args)
        => inv[i].promise = Fulfilled(Sequential(Exe(i), inv[i].args))

C11_Witness ==
    \E i, j \in Invocations :
        /\ i # j
        /\ inv[i].this = inv[j].this
        /\ inv[i].args # inv[j].args
        /\ inv[j].concurrent
        /\ Succeeded(i) /\ Failed(j)
        /\ inv[i].settled = 4
        /\ inv[i].promise = Fulfilled(Sequential(Exe(i), inv[i].args))

\* C12: two invocations with identical arguments end with identical
\* outcomes, be they of two Executables constructed separately from the
\* same function factory and options or of one instance, whatever the
\* other one has done in between
C12_SameConstructionSameOutcome ==
    /\ \A e, f \in DOMAIN executables : executables[e] = executables[f]
    /\ \A i, j \in Invocations :
          (i # j /\ Done(i) /\ Done(j) /\ inv[i].args = inv[j].args)
          => /\ inv[i].promise = inv[j].promise
             /\ inv[i].trace = inv[j].trace

C12_Witness ==
    \E i, j \in Invocations :
        /\ inv[i].this # inv[j].this
        /\ inv[i].args = inv[j].args
        /\ Succeeded(i) /\ Succeeded(j)
        /\ inv[j].concurrent
        /\ inv[i].settled = 4
        /\ inv[i].promise = inv[j].promise

\* the Executable the supplied arguments describe when every omitted
\* middleware factory is read as one that returns the empty list
AsIfEmpty ==
    [funcFactory |-> supplied.funcFactory,
     options |->
        [supplied.options EXCEPT
            !.beforeMiddlewares = IF @.defined THEN @ ELSE Factory(<<>>),
            !.afterMiddlewares = IF @.defined THEN @ ELSE Factory(<<>>)]]

\* C13: omitted options behave as empty ones.  With beforeMiddlewares
\* omitted the body is the first step and receives the call's arguments;
\* with no middlewares a body that does not throw yields Success with its
\* raw result; an invocation ends as with empty lists in place of the
\* omitted ones; with no error registry every raise, and with no dependency
\* registry every get, yields the 'is not registered' Defect
C13_OmittedOptionsAreEmpty ==
    \A i \in Invocations :
        LET st == inv[i]
            given == supplied.options
            body == RunBody(supplied.funcFactory.prog, given, st.args)
        IN  /\ (~given.beforeMiddlewares.defined /\ st.trace # <<>>)
                => st.trace[1].step = "body" /\ st.bodyArgs = st.args
            /\ Done(i) =>
                  inv[i].promise = Fulfilled(Sequential(AsIfEmpty, st.args))
            /\ (/\ Done(i)
                /\ ~given.beforeMiddlewares.defined
                /\ ~given.afterMiddlewares.defined
                /\ ~supplied.funcFactory.throws
                /\ ~body.threw)
                => inv[i].promise = Fulfilled(succeed(body.value))
            /\ (Done(i) /\ ~given.errors.defined /\ st.failure.call.fn = "raise")
                => inv[i].promise =
                     Fulfilled(fail(Defect("Error \"" \o st.failure.call.name
                                           \o "\" is not registered.")))
            /\ (/\ ~given.dependencies.defined
                /\ st.bodyArgs # <<>>
                /\ supplied.funcFactory.prog # <<>>
                /\ supplied.funcFactory.prog[1].op = "get")
                => /\ st.pc = "body" => st.awaited.threw
                   /\ st.rawResult = NoResult
                   /\ Done(i) =>
                        inv[i].promise =
                          Fulfilled(fail(Defect(
                              "Dependency \"" \o supplied.funcFactory.prog[1].name
                              \o "\" is not registered.")))

C13_Witness ==
    \E i \in Invocations :
        /\ Failed(i)
        /\ ~supplied.options.errors.defined
        /\ ~supplied.options.dependencies.defined
        /\ ~supplied.options.beforeMiddlewares.defined
        /\ ~supplied.options.afterMiddlewares.defined
        /\ inv[i].failure.call = RaiseCall("toString", <<"bad-id">>)
        /\ inv[i].promise.value.error.cls = "Defect"

\* the name is a key of the dependency registry given at construction and
\* the value stored under it is neither null nor undefined
Stored(name) ==
    /\ supplied.options.dependencies.defined
    /\ name \in DOMAIN supplied.options.dependencies.own
    /\ supplied.options.dependencies.own[name] \notin {Null, Undefined}

\* C14: for a name stored in the dependency registry with a value that is
\* not absent, every get(name) returns the stored value itself and never
\* fails; two calls, in one invocation or in two, return the same value
C14_GetReturnsStoredValue ==
    /\ \A i \in Invocations :
          /\ \A k \in 1..Len(Got(i)) :
                Stored(Got(i)[k][1])
                => Got(i)[k][2] = supplied.options.dependencies.own[Got(i)[k][1]]
          /\ inv[i].failure.call.fn = "get" => ~Stored(inv[i].failure.call.name)
    /\ \A i, j \in Invocations :
          \A k \in 1..Len(Got(i)), l \in 1..Len(Got(j)) :
              (Got(i)[k][1] = Got(j)[l][1] /\ Stored(Got(i)[k][1]))
              => Got(i)[k][2] = Got(j)[l][2]
    /\ \A name \in {"ILogger", "ISerializable"} :
          get([dependencies |-> DependencyRegistry], name)
              = Normal(DependencyRegistry.own[name])

C14_Witness ==
    \E i, j \in Invocations :
        /\ i # j
        /\ inv[i].this # inv[j].this
        /\ Succeeded(i)
        /\ Succeeded(j)
        /\ Got(i) = << <<"ILogger", "ConsoleLogger">>, <<"ILogger", "ConsoleLogger">> >>
        /\ Got(j) = Got(i)

\* C15: the steps started so far are an initial part of before 1..n, body,
\* after 1..m; a step is started only when every earlier one has settled,
\* so at most one step is under way, and it is the last one started
C15_OneStepAtATime ==
    \A i \in Invocations :
        LET st == inv[i]
            n == Len(st.trace)
        IN  /\ IsPrefix(st.trace, FullPlan)
            /\ st.settled <= n
            /\ n - st.settled <= 1
            /\ InProgress(st) <=> n = st.settled + 1
            /\ InProgress(st) =>
                  /\ st.trace[n].step = st.pc
                  /\ st.trace[n].index = st.idx

C15_Witness ==
    \E i \in Invocations :
        /\ Len(DeclaredBefore) = 2
        /\ Len(DeclaredAfter) = 2
        /\ inv[i].pc = "after"
        /\ inv[i].idx = 2
        /\ Len(inv[i].trace) = 5
        /\ inv[i].settled = 4

\* C16: the before-middleware under way was called with the original
\* arguments passed through the middlewares before it, in order (the
\* original arguments for the first), and the body with the arguments
\* passed through the whole list (the original arguments for an empty list)
C16_ArgumentsThreaded ==
    \A i \in Invocations :
        LET st == inv[i]
        IN  /\ st.pc = "before" =>
                /\ BeforeChain(SubSeq(DeclaredBefore, 1, st.idx - 1),
                               Exe(i).options, st.args) = Normal(st.currentArgs)
                /\ st.awaited = BeforeMiddleware(DeclaredBefore[st.idx],
                                                 Exe(i).options, st.currentArgs)
                /\ st.idx = 1 => st.currentArgs = st.args
            /\ st.bodyArgs # <<>> =>
                /\ BeforeChain(DeclaredBefore, Exe(i).options, st.args)
                       = Normal(st.bodyArgs)
                /\ DeclaredBefore = <<>> => st.bodyArgs = st.args
            /\ st.pc = "body" =>
                  st.awaited = RunBody(Exe(i).funcFactory.prog, Exe(i).options,
                                       st.bodyArgs)

C16_Witness ==
    \E i \in Invocations :
        /\ DeclaredBefore = <<"trim", "swap">>
        /\ inv[i].args = <<" 7 ", "admin">>
        /\ inv[i].pc = "body"
        /\ inv[i].bodyArgs = <<"admin", "7">>

\* the first call of raise the body reaches when run on args: the
\* statements before it fall through, its condition holds (NoCall when the
\* body reaches none)
RECURSIVE ReachedRaise(_, _, _, _)
ReachedRaise(prog, k, options, args) ==
    IF k > Len(prog) THEN NoCall
    ELSE IF prog[k].op = "raiseIfBadId" /\ args[1] = "bad-id"
    THEN RaiseCall(prog[k].name, <<args[1]>>)
    ELSE IF prog[k].op = "raiseIfNotAdmin" /\ args[2] # "admin"
    THEN RaiseCall(prog[k].name, <<"fetchUser">>)
    ELSE IF Statement(prog[k], options, args).threw THEN NoCall
    ELSE ReachedRaise(prog, k + 1, options, args)

\* C17: when the body reaches a call of raise, the body does not return
\* and the outcome is a Failure whose payload is the error of that first
\* call: the declared error registered under its name, or the Defect
\* 'Error "<name>" is not registered.'
C17_RaiseNeverReturns ==
    \A i \in Invocations :
        inv[i].bodyArgs # <<>> =>
            LET st == inv[i]
                reached == ReachedRaise(Exe(i).funcFactory.prog, 1,
                                        Exe(i).options, st.bodyArgs)
                errors == Exe(i).options.errors
            IN  reached # NoCall =>
                /\ st.rawResult = NoResult
                /\ st.pc = "body" => st.awaited.threw
                /\ Done(i) =>
                    /\ Failed(i)
                    /\ st.failure.at = "body"
                    /\ st.failure.call = reached
                    /\ \/ st.promise.value.error =
                            Defect("Error \"" \o reached.name
                                   \o "\" is not registered.")
                       \/ /\ errors.defined
                          /\ reached.name \in DOMAIN errors.own
                          /\ st.promise.value.error.cls = errors.own[reached.name]
                          /\ st.promise.value.error.name = reached.name

\* the part of C17 that holds for every name: a reached raise throws, the
\* body does not return, and the payload is what the first raise threw
C17_FirstRaiseWins ==
    \A i \in Invocations :
        inv[i].bodyArgs # <<>> =>
            LET st == inv[i]
                reached == ReachedRaise(Exe(i).funcFactory.prog, 1,
                                        Exe(i).options, st.bodyArgs)
            IN  reached # NoCall =>
                /\ st.rawResult = NoResult
                /\ st.pc = "body" => st.awaited.threw
                /\ Done(i) =>
                    /\ Failed(i)
                    /\ st.failure.call = reached
                    /\ st.promise.value.error =
                         raise(Exe(i).options, reached.name, reached.params)

\* how many times the body was called in invocation i
BodyCalls(i) == Len(KindsOf(inv[i].trace, "body"))

\* every declared before-middleware of invocation i completed without
\* throwing
BeforeAllCompleted(i) ==
    ~BeforeChain(DeclaredBefore, Exe(i).options, inv[i].args).threw

\* C18 as stated: the body is called at most once, and in a finished
\* invocation exactly once if and only if every before-middleware completed
\* without failure; no step is run again
C18_BodyOnceIffBeforeCompleted ==
    \A i \in Invocations :
        /\ BodyCalls(i) <= 1
        /\ IsPrefix(inv[i].trace, FullPlan)
        /\ (Done(i) /\ inv[i].this # NoThis)
            => (BodyCalls(i) = 1 <=> BeforeAllCompleted(i))

\* C18 amended: the body is called at most once, and in a finished
\* invocation exactly once if and only if the before-middleware factory,
\* every before-middleware and the function factory completed without
\* failure; every step started is started once, in the order of the plan
C18_BodyOnceIffReached ==
    \A i \in Invocations :
        /\ BodyCalls(i) <= 1
        /\ IsPrefix(inv[i].trace, FullPlan)
        /\ (Done(i) /\ inv[i].this # NoThis)
            => (BodyCalls(i) = 1
                <=> /\ ~CallFactory(Exe(i).options.beforeMiddlewares).threw
                    /\ BeforeAllCompleted(i)
                    /\ ~Exe(i).funcFactory.throws)

C18_Witness ==
    \E i \in Invocations :
        /\ Failed(i)
        /\ DeclaredBefore = <<"trim", "swap">>
        /\ BeforeAllCompleted(i)
        /\ Len(inv[i].trace) = 2
        /\ BodyCalls(i) = 0
        /\ Exe(i).funcFactory.throws

\* C19: a finished invocation is a Success exactly when its whole pipeline
\* (the factories' calls, every before-middleware, the body, every
\* after-middleware), computed again from the arguments, completes without
\* throwing, and then every step of the plan ran and settled; it is a
\* Failure exactly when something in the pipeline threw, and a Failure is
\* what the catch made of the value it caught
C19_SuccessIffNothingThrew ==
    \A i \in Invocations :
        (Done(i) /\ inv[i].this # NoThis) =>
            LET alone == Alone(Exe(i), inv[i].args)
            IN  /\ Succeeded(i) <=> ~alone.threw
                /\ Failed(i) <=> alone.threw
                /\ Succeeded(i) =>
                      /\ inv[i].trace = FullPlan
                      /\ inv[i].settled = Len(FullPlan)
                      /\ inv[i].failure.at = ""
                /\ Failed(i) =>
                      /\ inv[i].failure.at # ""
                      /\ inv[i].promise.value = fail(inv[i].failure.error)
                      /\ inv[i].failure.error = alone.error

C19_Witness ==
    \E i \in Invocations :
        /\ Succeeded(i)
        /\ Len(DeclaredBefore) = 2
        /\ DeclaredAfter = <<"upper", "anon">>
        /\ inv[i].trace = FullPlan
        /\ ~Alone(Exe(i), inv[i].args).threw

\* C20: in every state, whatever invocations were made and however they
\* ended, each Executable holds the function factory, the error registry
\* and the dependency registry it was constructed with, and its two
\* middleware factories return the lists supplied (none when omitted)
C20_ExecutableUnchanged ==
    \A e \in DOMAIN executables :
        LET now == executables[e]
            given == supplied.options
        IN  /\ now.funcFactory = supplied.funcFactory
            /\ now.options.errors = given.errors
            /\ now.options.dependencies = given.dependencies
            /\ now.options.beforeMiddlewares =
                 (IF given.beforeMiddlewares.defined
                  THEN given.beforeMiddlewares ELSE Factory(<<>>))
            /\ now.options.afterMiddlewares =
                 (IF given.afterMiddlewares.defined
                  THEN given.afterMiddlewares ELSE Factory(<<>>))

C20_Witness ==
    \E i, j \in Invocations :
        /\ Failed(i)
        /\ inv[i].failure.call.fn = "raise"
        /\ Succeeded(j)
        /\ inv[j].concurrent
        /\ Len(Got(j)) = 2
        /\ DeclaredAfter = <<"upper">>
        /\ C20_ExecutableUnchanged

\* C21: when the promise of every started step settles, every invocation
\* that was made is eventually over with its promise fulfilled by a Result;
\* on the way it never starts more steps than its plan has
C21_EveryInvocationResolves ==
    /\ [](\A i \in Invocations : Len(inv[i].trace) <= Len(FullPlan))
    /\ \A i \in Invocations :
          (inv[i].pc # "idle")
              ~> (/\ Done(i)
                  /\ inv[i].promise.state = "fulfilled"
                  /\ IsResult(inv[i].promise.value))

C21_Witness ==
    \E i, j \in Invocations :
        /\ todo = {}
        /\ DeclaredBefore = <<"trim", "guard">>
        /\ DeclaredAfter = <<"upper">>
        /\ Succeeded(i)
        /\ inv[i].settled = 4
        /\ Failed(j)
        /\ inv[j].concurrent
        /\ inv[j].failure.at = "before"
        /\ inv[j].settled = 2

====
